---- MODULE Spec2Model ----
(***************************************************************************)
(* Model of server.js: the Express application with GET /health and        *)
(* POST /api/get-sar-image.  The POST handler is one async function; every *)
(* action below is the code that runs between two awaits (Node runs it     *)
(* without interleaving), the upstream services and the timers are the     *)
(* environment.                                                            *)
(***************************************************************************)
EXTENDS Integers, Sequences, FiniteSets, TLC

(* ---------------------------- bounds ----------------------------------- *)
\* longest features array of a catalog response that is enumerated
MaxFeatures == 3
\* longest tags array of a tags response that is enumerated
MaxTags == 7
\* granularity (ms) at which elapsed waiting time is observed
TimeStep == 10000
\* largest wall-clock reading (ms past the process start) that is enumerated
MaxClock == 5
\* largest forward jump of the wall clock between two observations
MaxTick == 2

(* ------------------------ program constants ---------------------------- *)
\* axios timeout (ms) of the Imagga colors call
ColorsTimeoutMs == 20000
\* axios timeout (ms) of the Imagga tags call
TagsTimeoutMs == 20000
\* axios timeout (ms) of the OpenRouter call
LLMTimeoutMs == 30000
\* t.confidence > 15
ConfidenceThreshold == 15
\* .slice(0,5)
MaxImageTags == 5

\* the JavaScript value undefined (a missing property)
UNDEFINED == "undefined"

\* JavaScript truthiness of a string-valued environment variable
Truthy(s) == s # UNDEFINED /\ s # ""

Min(a, b) == IF a <= b THEN a ELSE b

\* Array.prototype.slice(0, n)
Slice0(s, n) == SubSeq(s, 1, Min(n, Len(s)))

\* all sequences over S of length 0..n
SeqsUpTo(S, n) == UNION {[1..k -> S] : k \in 0..n}

(* ----------------------- catalog values -------------------------------- *)
\* new Date(s).getTime() / 1000 for the ISO-8601 strings that occur; two
\* spellings of one instant parse to the same number, and an offset spelling
\* parses to its UTC instant
DateSeconds(s) ==
  CASE s = "2024-01-01T00:00:00Z"      -> 1704067200
    [] s = "2024-01-13T00:00:00Z"      -> 1705104000
    [] s = "2024-01-13T00:00:00.000Z"  -> 1705104000
    [] s = "2024-01-13T04:00:00+05:30" -> 1705098600
    [] s = "2024-01-25T05:30:00+05:30" -> 1706140800

\* a GeoJSON feature: properties may be absent, and so may properties.browse
Feature(scene, start, hasBrowse, browse) ==
  [hasProperties |-> TRUE, sceneName |-> scene, platform |-> "Sentinel-1A",
   startTime |-> start, flightDirection |-> "ASCENDING",
   polarization |-> "VV+VH", beamModeType |-> "IW", orbit |-> "52000",
   hasBrowse |-> hasBrowse, browse |-> browse]

NoPropertiesFeature ==
  [hasProperties |-> FALSE, sceneName |-> UNDEFINED, platform |-> UNDEFINED,
   startTime |-> UNDEFINED, flightDirection |-> UNDEFINED,
   polarization |-> UNDEFINED, beamModeType |-> UNDEFINED, orbit |-> UNDEFINED,
   hasBrowse |-> FALSE, browse |-> <<>>]

\* a URL that holds a lone surrogate: encodeURIComponent throws URIError on it
LoneSurrogateUrl == "https://b/<U+D800>.png"

fA == Feature("A", "2024-01-01T00:00:00Z", TRUE, <<"https://b/A.png">>)
fB == Feature("B", "2024-01-13T00:00:00Z", TRUE, <<"https://b/B.png", "https://b/B2.png">>)
fC == Feature("C", "2024-01-13T00:00:00.000Z", TRUE, <<"https://b/C.png">>)
fD == Feature("D", "2024-01-13T04:00:00+05:30", TRUE, <<"https://b/D.png">>)
fE == Feature("E", "2024-01-25T05:30:00+05:30", FALSE, <<>>)
fF == Feature("F", "2024-01-25T05:30:00+05:30", TRUE, <<>>)
fG == NoPropertiesFeature
fH == Feature("H", "2024-01-01T00:00:00Z", TRUE, <<LoneSurrogateUrl>>)

FeaturePool == {fA, fB, fC, fD, fE, fF, fG, fH}

\* f.properties && f.properties.browse && f.properties.browse.length > 0
HasBrowse(f) == f.hasProperties /\ f.hasBrowse /\ Len(f.browse) > 0

\* CompareFn with a and b exchanged: an ascending sort
CompareFn_Ascending(a, b) == DateSeconds(a.startTime) - DateSeconds(b.startTime)

\* (a, b) => new Date(b.properties.startTime) - new Date(a.properties.startTime)
CompareFn(a, b) == DateSeconds(b.startTime) - DateSeconds(a.startTime)

\* Array.prototype.sort with a consistent comparator: stable, so an element
\* goes behind every element that does not compare greater than it
RECURSIVE InsertSorted(_, _)
InsertSorted(sorted, f) ==
  IF sorted = <<>> THEN <<f>>
  ELSE IF CompareFn(Head(sorted), f) > 0
       THEN <<f>> \o sorted
       ELSE <<Head(sorted)>> \o InsertSorted(Tail(sorted), f)

RECURSIVE SortFeatures(_)
SortFeatures(s) ==
  IF s = <<>> THEN <<>>
  ELSE InsertSorted(SortFeatures(SubSeq(s, 1, Len(s) - 1)), s[Len(s)])

\* features.filter(...).sort(...)
sortedFeatures(features) == SortFeatures(SelectSeq(features, HasBrowse))

(* ------------------------ JSON values ---------------------------------- *)
\* a JSON value that stands where an array is expected
JsUndefined == [type |-> "undefined", items |-> <<>>]
JsArray(items) == [type |-> "array", items |-> items]
\* a non-empty string: it has length and slice, but neither map nor filter
JsString == [type |-> "string", items |-> <<"n", "/", "a">>]
\* a non-zero number: it has none of length, slice, map, filter
JsNumber == [type |-> "number", items |-> <<>>]
EmptyArray == JsArray(<<>>)

(* ------------------------ Imagga colors -------------------------------- *)
\* an element of image_colors; percent is held in tenths of a percent
ColorSample(name, palette, html, percentType, percent) ==
  [isObject |-> TRUE, color_name |-> name, closest_palette_color |-> palette,
   html_code |-> html, percentType |-> percentType, percent |-> percent]
NullSample ==
  [isObject |-> FALSE, color_name |-> UNDEFINED, closest_palette_color |-> UNDEFINED,
   html_code |-> UNDEFINED, percentType |-> "undefined", percent |-> 0]

cGrey == ColorSample("grey", "light grey", "#808080", "number", 412)
cUnnamed == ColorSample(UNDEFINED, UNDEFINED, "#0a0a2a", "undefined", 0)
cTextPercent == ColorSample("black", "black", "#000000", "string", 125)

ColorsError == [kind |-> "error", image_colors |-> JsUndefined]
ColorsTimeout == [kind |-> "timeout", image_colors |-> JsUndefined]
ColorsOk(v) == [kind |-> "ok", image_colors |-> v]

\* the try block of the colors call once the promise has settled:
\* (data && data.result && ... .image_colors) || [], then imageColors.slice(0,5)
\* for the log line; the catch block assigns []
ImageColorsOf(r) ==
  IF r.kind # "ok" THEN EmptyArray
  ELSE IF r.image_colors.type = "undefined" THEN EmptyArray
  ELSE IF r.image_colors.type = "number" THEN EmptyArray
  ELSE r.image_colors

\* c.color_name || c.closest_palette_color || c.html_code || 'unknown'
ColorLabel(c) ==
  IF Truthy(c.color_name) THEN c.color_name
  ELSE IF Truthy(c.closest_palette_color) THEN c.closest_palette_color
  ELSE IF Truthy(c.html_code) THEN c.html_code
  ELSE "unknown"

\* (c.percent || 0).toFixed(1) of a number given in tenths
ToFixed1(c) ==
  LET p == IF c.percentType = "number" THEN c.percent ELSE 0
  IN  [whole |-> p \div 10, tenth |-> p % 10]

\* evaluating colorText throws a TypeError: map on a string, a property of
\* null, or toFixed on a non-empty string
ColorTextThrows(ic) ==
  /\ Len(ic.items) > 0
  /\ \/ ic.type # "array"
     \/ \E i \in 1..Len(ic.items) :
          \/ ~ic.items[i].isObject
          \/ ic.items[i].percentType = "string"

\* imageColors.length ? imageColors.map(...).join(', ') : 'No color data available'
colorText(ic) ==
  IF Len(ic.items) = 0
  THEN [literal |-> "No color data available", parts |-> <<>>]
  ELSE [literal |-> "",
        parts |-> [i \in 1..Len(ic.items) |->
                     [name |-> ColorLabel(ic.items[i]),
                      percent |-> ToFixed1(ic.items[i])]]]

(* ------------------------- Imagga tags --------------------------------- *)
\* an element of result.tags; tag may be absent, and the element may be null
Tag(confidence, en) ==
  [isObject |-> TRUE, confidence |-> confidence, hasTag |-> TRUE, en |-> en]
UnlabelledTag(confidence) ==
  [isObject |-> TRUE, confidence |-> confidence, hasTag |-> FALSE, en |-> UNDEFINED]
NullTag ==
  [isObject |-> FALSE, confidence |-> 0, hasTag |-> FALSE, en |-> UNDEFINED]

TagsError == [kind |-> "error", tags |-> JsUndefined]
TagsTimeout == [kind |-> "timeout", tags |-> JsUndefined]
TagsOk(v) == [kind |-> "ok", tags |-> v]

\* t => t.confidence > 15
Confident(t) == t.confidence > ConfidenceThreshold

\* RetainedTags with slice ahead of filter
RetainedTags_SliceFirst(tags) == SelectSeq(Slice0(tags, MaxImageTags), Confident)

\* tags.filter(t => t.confidence > 15).slice(0,5)
RetainedTags(tags) == Slice0(SelectSeq(tags, Confident), MaxImageTags)

\* the filter/slice/map chain throws a TypeError: filter on a non-array, the
\* confidence of null, or tag.en of a retained element without tag
TagsChainThrows(v) ==
  \/ v.type \in {"string", "number"}
  \/ /\ v.type = "array"
     /\ \/ \E i \in 1..Len(v.items) : ~v.items[i].isObject
        \/ \E i \in 1..Len(RetainedTags(v.items)) : ~RetainedTags(v.items)[i].hasTag

\* the try block of the tags call once the promise has settled; the catch
\* block assigns []
ImageTagsOf(r) ==
  IF r.kind # "ok" THEN <<>>
  ELSE IF r.tags.type = "undefined" THEN <<>>
  ELSE IF TagsChainThrows(r.tags) THEN <<>>
  ELSE LET kept == RetainedTags(r.tags.items)
       IN  [i \in 1..Len(kept) |-> kept[i].en]

(* ---------------------------- LLM -------------------------------------- *)
LLMError == [kind |-> "error", hasChoice |-> FALSE, content |-> UNDEFINED, text |-> UNDEFINED]
LLMTimeout == [kind |-> "timeout", hasChoice |-> FALSE, content |-> UNDEFINED, text |-> UNDEFINED]
LLMOk(hasChoice, content, text) ==
  [kind |-> "ok", hasChoice |-> hasChoice, content |-> content, text |-> text]

\* the catch block of the LLM call leaving the explanation empty
ServiceErrorExplanation_Empty == ""

\* the literal the catch block of the LLM call assigns
ServiceErrorExplanation == "AI interpretation unavailable due to service error."

\* data && data.choices && data.choices[0] &&
\*   (choices[0].message?.content || choices[0].text) || ''
ExplanationOf(r) ==
  IF r.kind # "ok" THEN ServiceErrorExplanation
  ELSE IF ~r.hasChoice THEN ""
  ELSE IF Truthy(r.content) THEN r.content
  ELSE IF Truthy(r.text) THEN r.text
  ELSE ""

(* ------------------------- the handler --------------------------------- *)
VARIABLES
  IMAGGA_API_KEY, IMAGGA_API_SECRET, OPEN_ROUTER_API, \* process.env, read once
  pc,            \* where the POST handler stands
  latitude, longitude,   \* req.body
  calls,         \* the outbound calls issued so far, in order
  waited,        \* ms the timer of the pending call has run
  asfResponse, colorResponse, imaggaResponse, aiResponse, \* what was awaited
  properties, imageUrl, imageColors, imageTags, prompt, explanation,
  response,      \* what res.json sent
  responses,     \* how many responses were sent for the request
  now,           \* the wall clock Date.now() reads
  healthLog,     \* the last two /health responses, each with clockSetBack
  clockSetBack   \* the wall clock was set back since the last /health response

envVars == <<IMAGGA_API_KEY, IMAGGA_API_SECRET, OPEN_ROUTER_API>>
awaited == <<asfResponse, colorResponse, imaggaResponse, aiResponse>>
locals == <<properties, imageUrl, imageColors, imageTags, prompt, explanation>>
postVars == <<pc, latitude, longitude, calls, waited, awaited, locals,
              response, responses>>
healthVars == <<now, healthLog, clockSetBack>>
vars == <<envVars, postVars, healthVars>>

NoResponse == [status |-> 0]
\* the value of an awaited promise that has not settled
NotSettled == [kind |-> "pending"]
ErrorResponse(status, error) == [status |-> status, error |-> error]

\* axios applies no timeout unless one is configured (timeout 0)
CatalogCall(lat, lon) == [to |-> "catalog", point |-> <<lon, lat>>, timeout |-> 0]
ColorsCall(url) ==
  [to |-> "colors", image_url |-> url, timeout |-> ColorsTimeoutMs,
   basic |-> <<IMAGGA_API_KEY, IMAGGA_API_SECRET>>]
TagsCall(url) ==
  [to |-> "tags", image_url |-> url, timeout |-> TagsTimeoutMs,
   basic |-> <<IMAGGA_API_KEY, IMAGGA_API_SECRET>>]
LLMCall(p) ==
  [to |-> "llm", prompt |-> p, timeout |-> LLMTimeoutMs, bearer |-> OPEN_ROUTER_API]

\* encodeURIComponent throws URIError on a lone surrogate
EncodeURIComponentThrows(url) == url = LoneSurrogateUrl

metadataForAI(props, lat, lon) ==
  [sceneName |-> props.sceneName, platform |-> props.platform,
   captureDate |-> props.startTime, flightDirection |-> props.flightDirection,
   polarization |-> props.polarization, beamMode |-> props.beamModeType,
   orbit |-> props.orbit, coordinates |-> [latitude |-> lat, longitude |-> lon]]

\* imageTags.length ? imageTags.join(', ') : 'None'
tagText(it) ==
  IF Len(it) = 0 THEN [literal |-> "None", parts |-> <<>>]
  ELSE [literal |-> "", parts |-> it]

BuildPrompt(ic, it, meta) ==
  [colorText |-> colorText(ic), tagText |-> tagText(it), metadata |-> meta]

\* the prompt before it is built
NoPrompt ==
  [colorText |-> [literal |-> UNDEFINED, parts |-> <<>>],
   tagText |-> [literal |-> UNDEFINED, parts |-> <<>>],
   metadata |-> metadataForAI(NoPropertiesFeature, UNDEFINED, UNDEFINED)]

\* the body of the 200 response
ResultBody(url, expl, props, it, ic, meta) ==
  [status |-> 200, imageUrl |-> url, explanation |-> expl,
   sceneName |-> props.sceneName, imageTags |-> it, imageColors |-> ic,
   metadata |-> meta]

\* Preflight with the credential check ahead of the validation
Preflight_CredentialsFirst(lat, lon, key, secret) ==
  IF ~Truthy(key) \/ ~Truthy(secret)
  THEN ErrorResponse(500, "Server configuration error: Imagga credentials missing.")
  ELSE IF lat = UNDEFINED \/ lon = UNDEFINED
  THEN ErrorResponse(400, "Latitude and Longitude are required.")
  ELSE NoResponse

\* the checks before the try block: which response, if any, ends the request
Preflight(lat, lon, key, secret) ==
  IF lat = UNDEFINED \/ lon = UNDEFINED
  THEN ErrorResponse(400, "Latitude and Longitude are required.")
  ELSE IF ~Truthy(key) \/ ~Truthy(secret)
  THEN ErrorResponse(500, "Server configuration error: Imagga credentials missing.")
  ELSE NoResponse

Init ==
  /\ IMAGGA_API_KEY \in {UNDEFINED, "key"}
  /\ IMAGGA_API_SECRET \in {UNDEFINED, "secret"}
  /\ OPEN_ROUTER_API \in {UNDEFINED, "sk-or"}
  /\ pc = "idle"
  /\ latitude = UNDEFINED /\ longitude = UNDEFINED
  /\ calls = <<>> /\ waited = 0
  /\ asfResponse = NotSettled /\ colorResponse = NotSettled
  /\ imaggaResponse = NotSettled /\ aiResponse = NotSettled
  /\ properties = NoPropertiesFeature /\ imageUrl = UNDEFINED
  /\ imageColors = EmptyArray /\ imageTags = <<>>
  /\ prompt = NoPrompt /\ explanation = ""
  /\ response = NoResponse /\ responses = 0
  /\ now = 0 /\ healthLog = <<>> /\ clockSetBack = FALSE

\* res.status(...).json(...): the request ends
Send(r) == response' = r /\ responses' = responses + 1 /\ pc' = "done"

\* issue an outbound call and suspend at the await
Await(cs, call, at) ==
  /\ calls' = Append(cs, call) /\ waited' = 0 /\ pc' = at
  /\ UNCHANGED <<response, responses>>

\* lines 100-162: the metadata, the prompt and the LLM call; an exception while
\* colorText is evaluated is outside the inner try blocks and reaches the
\* outer catch
StartLLM(cs, ic, it) ==
  IF ColorTextThrows(ic)
  THEN /\ Send(ErrorResponse(500, "Failed to process SAR data."))
       /\ calls' = cs /\ UNCHANGED <<waited, prompt>>
  ELSE LET p == BuildPrompt(ic, it, metadataForAI(properties', latitude, longitude))
       IN  prompt' = p /\ Await(cs, LLMCall(p), "awaitLLM")

\* StartTags with the tags call inside the try block of the colors call: a
\* failed colors call skips it
StartTags_InsideColorsTry(cs, ic) ==
  IF EncodeURIComponentThrows(imageUrl') \/ colorResponse'.kind \in {"error", "timeout"}
  THEN /\ imageTags' = <<>> /\ UNCHANGED imaggaResponse
       /\ StartLLM(cs, ic, <<>>)
  ELSE /\ Await(cs, TagsCall(imageUrl'), "awaitTags")
       /\ imageTags' = <<>>
       /\ UNCHANGED <<imaggaResponse, prompt>>

\* lines 82-90: the tags call; an exception of encodeURIComponent is inside
\* the try block
StartTags(cs, ic) ==
  IF EncodeURIComponentThrows(imageUrl')
  THEN /\ imageTags' = <<>> /\ UNCHANGED imaggaResponse
       /\ StartLLM(cs, ic, <<>>)
  ELSE /\ Await(cs, TagsCall(imageUrl'), "awaitTags")
       /\ imageTags' = <<>>
       /\ UNCHANGED <<imaggaResponse, prompt>>

\* lines 65-73: the colors call
StartColors(cs) ==
  IF EncodeURIComponentThrows(imageUrl')
  THEN /\ imageColors' = EmptyArray /\ UNCHANGED colorResponse
       /\ StartTags(cs, EmptyArray)
  ELSE /\ Await(cs, ColorsCall(imageUrl'), "awaitColors")
       /\ imageColors' = EmptyArray
       /\ UNCHANGED <<colorResponse, imaggaResponse, imageTags, prompt>>

(* ----------------------- POST /api/get-sar-image ----------------------- *)
Body(lat, lon) == [latitude |-> lat, longitude |-> lon]

\* lines 25-43: destructure the body, validate, check the credentials, issue
\* the catalog call
Receive(Bodies) ==
  /\ pc = "idle"
  /\ \E b \in Bodies :
       /\ latitude' = b.latitude /\ longitude' = b.longitude
       /\ LET r == Preflight(b.latitude, b.longitude, IMAGGA_API_KEY, IMAGGA_API_SECRET)
          IN  IF r # NoResponse
              THEN Send(r) /\ UNCHANGED <<calls, waited>>
              ELSE Await(calls, CatalogCall(b.latitude, b.longitude), "awaitCatalog")
  /\ UNCHANGED <<envVars, awaited, locals, healthVars>>

CatalogError == [kind |-> "error", hasData |-> FALSE, hasFeatures |-> FALSE, features |-> <<>>]
\* a response whose body is JSON null
CatalogNull == [kind |-> "ok", hasData |-> FALSE, hasFeatures |-> FALSE, features |-> <<>>]
\* a response whose body has no features member
CatalogNoFeatures == [kind |-> "ok", hasData |-> TRUE, hasFeatures |-> FALSE, features |-> <<>>]
CatalogOk(fs) == [kind |-> "ok", hasData |-> TRUE, hasFeatures |-> TRUE, features |-> fs]

\* CatalogVerdict with the features filtered before the emptiness check
CatalogVerdict_FilterFirst(r) ==
  IF r.kind = "error" \/ ~r.hasData
  THEN ErrorResponse(500, "Failed to process SAR data.")
  ELSE IF ~r.hasFeatures
  THEN ErrorResponse(404, "No SAR data found for this location.")
  ELSE IF Len(sortedFeatures(r.features)) = 0
  THEN ErrorResponse(404, "SAR data found, but no preview images are available.")
  ELSE NoResponse

\* lines 44-56: which response, if any, ends the request once the catalog
\* call has settled; reading features of a null body throws into the outer catch
CatalogVerdict(r) ==
  IF r.kind = "error" \/ ~r.hasData
  THEN ErrorResponse(500, "Failed to process SAR data.")
  ELSE IF ~r.hasFeatures \/ Len(r.features) = 0
  THEN ErrorResponse(404, "No SAR data found for this location.")
  ELSE IF Len(sortedFeatures(r.features)) = 0
  THEN ErrorResponse(404, "SAR data found, but no preview images are available.")
  ELSE NoResponse

Pending == calls[Len(calls)]
InTime == Pending.timeout = 0 \/ waited < Pending.timeout
Expired == Pending.timeout > 0 /\ waited >= Pending.timeout

\* lines 43-62, then on to the colors call
CatalogReturn(Responses) ==
  /\ pc = "awaitCatalog" /\ InTime
  /\ \E r \in Responses :
       /\ asfResponse' = r
       /\ IF CatalogVerdict(r) # NoResponse
          THEN /\ Send(CatalogVerdict(r))
               /\ UNCHANGED <<calls, waited, colorResponse, imaggaResponse, locals>>
          ELSE LET latestFeature == sortedFeatures(r.features)[1]
               IN  /\ properties' = latestFeature
                   /\ imageUrl' = latestFeature.browse[1]
                   /\ StartColors(calls)
                   /\ UNCHANGED explanation
  /\ UNCHANGED <<envVars, latitude, longitude, aiResponse, healthVars>>

\* lines 74-79, then on to the tags call
ColorsSettle(r) ==
  /\ colorResponse' = r
  /\ imageColors' = ImageColorsOf(r)
  /\ UNCHANGED <<properties, imageUrl, explanation>>
  /\ StartTags(calls, ImageColorsOf(r))
  /\ UNCHANGED <<envVars, latitude, longitude, asfResponse, aiResponse, healthVars>>

ColorsReturn(Responses) ==
  pc = "awaitColors" /\ InTime /\ \E r \in Responses : ColorsSettle(r)

ColorsTimedOut ==
  pc = "awaitColors" /\ Expired /\ ColorsSettle(ColorsTimeout)

\* lines 91-98, then on to the prompt and the LLM call
TagsSettle(r) ==
  /\ imaggaResponse' = r
  /\ imageTags' = ImageTagsOf(r)
  /\ UNCHANGED <<properties, imageUrl, imageColors, explanation>>
  /\ StartLLM(calls, imageColors, ImageTagsOf(r))
  /\ UNCHANGED <<envVars, latitude, longitude, asfResponse, colorResponse,
                 aiResponse, healthVars>>

TagsReturn(Responses) ==
  pc = "awaitTags" /\ InTime /\ \E r \in Responses : TagsSettle(r)

TagsTimedOut ==
  pc = "awaitTags" /\ Expired /\ TagsSettle(TagsTimeout)

\* lines 163-178: the explanation and the 200 response
LLMSettle(r) ==
  /\ aiResponse' = r
  /\ explanation' = ExplanationOf(r)
  /\ Send(ResultBody(imageUrl, ExplanationOf(r), properties, imageTags,
                     imageColors, metadataForAI(properties, latitude, longitude)))
  /\ UNCHANGED <<envVars, latitude, longitude, calls, waited, asfResponse,
                 colorResponse, imaggaResponse, properties, imageUrl,
                 imageColors, imageTags, prompt, healthVars>>

LLMReturn(Responses) ==
  pc = "awaitLLM" /\ InTime /\ \E r \in Responses : LLMSettle(r)

LLMTimedOut ==
  pc = "awaitLLM" /\ Expired /\ LLMSettle(LLMTimeout)

\* the timer axios arms for a call with a timeout runs while the call is
\* pending; a call without a timeout has no timer
Elapse ==
  /\ pc \in {"awaitCatalog", "awaitColors", "awaitTags", "awaitLLM"}
  /\ Pending.timeout > 0 /\ waited < Pending.timeout
  /\ waited' = waited + TimeStep
  /\ UNCHANGED <<envVars, pc, latitude, longitude, calls, awaited, locals,
                 response, responses, healthVars>>

(* ----------------------------- inputs ---------------------------------- *)
\* a member may be absent (undefined), JSON null, or a value
Bodies ==
  {Body(lat, lon) : lat \in {UNDEFINED, "null", "12.97"}, lon \in {UNDEFINED, "77.59"}}

CatalogResponses ==
  {CatalogError, CatalogNull, CatalogNoFeatures, CatalogOk(<<>>),
   CatalogOk(<<fG, fE>>), CatalogOk(<<fA, fB>>)}

ColorsResponses ==
  {ColorsError, ColorsOk(JsUndefined), ColorsOk(JsNumber), ColorsOk(JsString),
   ColorsOk(JsArray(<<cGrey, cUnnamed>>)), ColorsOk(JsArray(<<cGrey, NullSample>>)),
   ColorsOk(JsArray(<<cTextPercent>>))}

TagsResponses ==
  {TagsError, TagsOk(JsUndefined), TagsOk(JsString),
   TagsOk(JsArray(<<Tag(10, "sky"), Tag(99, "water"), Tag(16, "ice")>>)),
   TagsOk(JsArray(<<Tag(50, "water"), UnlabelledTag(40)>>)),
   TagsOk(JsArray(<<Tag(50, "water"), NullTag>>))}

LLMResponses ==
  {LLMError, LLMOk(FALSE, UNDEFINED, UNDEFINED), LLMOk(TRUE, "Calm water.", UNDEFINED),
   LLMOk(TRUE, UNDEFINED, "Legacy text."), LLMOk(TRUE, UNDEFINED, UNDEFINED)}

Next ==
  \/ Receive(Bodies)
  \/ CatalogReturn(CatalogResponses)
  \/ ColorsReturn(ColorsResponses)
  \/ ColorsTimedOut
  \/ TagsReturn(TagsResponses)
  \/ TagsTimedOut
  \/ LLMReturn(LLMResponses)
  \/ LLMTimedOut
  \/ Elapse

Spec == Init /\ [][Next]_vars

\* the timers of axios fire, and time passes; nothing obliges an upstream
\* service to answer
Fairness ==
  /\ WF_vars(Elapse)
  /\ WF_vars(ColorsTimedOut)
  /\ WF_vars(TagsTimedOut)
  /\ WF_vars(LLMTimedOut)

FairSpec == Init /\ [][Next]_vars /\ Fairness

(* ------------------------ image selection ------------------------------ *)
\* every features array over the pool, up to MaxFeatures long
AllCatalogResponses ==
  {CatalogNoFeatures} \cup {CatalogOk(fs) : fs \in SeqsUpTo(FeaturePool, MaxFeatures)}

NextSelect ==
  \/ Receive({Body("12.97", "77.59")})
  \/ CatalogReturn(AllCatalogResponses)
  \/ ColorsReturn({ColorsError, ColorsOk(JsArray(<<cGrey>>))})
  \/ TagsReturn({TagsOk(JsArray(<<Tag(99, "water")>>))})
  \/ LLMReturn({LLMOk(TRUE, "Calm water.", UNDEFINED)})

SpecSelect == Init /\ [][NextSelect]_vars

(* -------------------------- tag filtering ------------------------------ *)
Labels == <<"water", "urban", "forest", "field", "ship", "road", "ice", "sand">>
ConfidenceLevels == {10, 15, 16, 99}

\* every tags array up to MaxTags long whose i-th element carries the i-th label
AllTagLists ==
  UNION {{[i \in 1..k |-> Tag(c[i], Labels[i])] : c \in [1..k -> ConfidenceLevels]} :
           k \in 0..MaxTags}

NextTags ==
  \/ Receive({Body("12.97", "77.59")})
  \/ CatalogReturn({CatalogOk(<<fA>>)})
  \/ ColorsReturn({ColorsOk(JsArray(<<cGrey>>))})
  \/ TagsReturn({TagsOk(JsArray(ts)) : ts \in AllTagLists})
  \/ LLMReturn({LLMOk(TRUE, "Calm water.", UNDEFINED)})

SpecTags == Init /\ [][NextTags]_vars

(* ----------------------------- GET /health ----------------------------- *)
\* DateNow counting down
DateNow_Descending(clock) == 0 - clock

\* Date.now(): the wall clock, in ms
DateNow(clock) == clock

\* res.json({ status: 'ok', timestamp: Date.now() })
Health ==
  /\ healthLog' = (IF Len(healthLog) = 2 THEN Tail(healthLog) ELSE healthLog)
                    \o <<[code |-> 200, status |-> "ok", timestamp |-> DateNow(now),
                          clockSetBack |-> clockSetBack]>>
  /\ clockSetBack' = FALSE
  /\ UNCHANGED <<now, envVars, postVars>>

\* the wall clock advances
Tick ==
  /\ \E d \in 1..MaxTick : now + d <= MaxClock /\ now' = now + d
  /\ UNCHANGED <<healthLog, clockSetBack, envVars, postVars>>

\* the wall clock is set back (by NTP or by hand)
SetBack ==
  /\ \E t \in 0..(now - 1) : now' = t
  /\ clockSetBack' = TRUE
  /\ UNCHANGED <<healthLog, envVars, postVars>>

NextHealth == Health \/ Tick \/ SetBack

SpecHealth == Init /\ [][NextHealth]_vars

(* ============================ properties =============================== *)
Missing == latitude = UNDEFINED \/ longitude = UNDEFINED
Selected == imageUrl # UNDEFINED
Failed(r) == r.kind \in {"error", "timeout"}
CallNames == [i \in 1..Len(calls) |-> calls[i].to]

\* C1: a request whose body lacks latitude or longitude ends at once with
\* 400 {error: 'Latitude and Longitude are required.'}, whatever the
\* credentials, and no outbound call is issued for it
C1_MissingCoordinateRejected ==
  (pc # "idle" /\ Missing) =>
     /\ pc = "done" /\ responses = 1
     /\ response = [status |-> 400, error |-> "Latitude and Longitude are required."]
     /\ calls = <<>>

C1_Witness ==
  /\ pc = "done" /\ latitude # UNDEFINED /\ longitude = UNDEFINED
  /\ IMAGGA_API_KEY = UNDEFINED /\ response.status = 400

\* C2: once a feature has been selected the request ends with 200 and the
\* body {imageUrl, explanation, sceneName, imageTags, imageColors, metadata},
\* whatever the colors, tags and LLM calls deliver
C2_SelectedEndsWith200 ==
  (pc = "done" /\ Selected) =>
     /\ response.status = 200
     /\ DOMAIN response = {"status", "imageUrl", "explanation", "sceneName",
                           "imageTags", "imageColors", "metadata"}

\* C3: a catalog answer without a usable image ends the request with 404 and
\* only the catalog call issued: 'No SAR data found for this location.' for
\* zero or absent features, 'SAR data found, but no preview images are
\* available.' when features exist but none carries a non-empty browse list
NoUsableFeature(fs) ==
  \A i \in 1..Len(fs) :
     ~(fs[i].hasProperties /\ fs[i].hasBrowse /\ fs[i].browse # <<>>)

C3_NoUsableImageIs404 ==
  (/\ asfResponse.kind = "ok" /\ asfResponse.hasData
   /\ (~asfResponse.hasFeatures \/ NoUsableFeature(asfResponse.features))) =>
     /\ pc = "done" /\ responses = 1
     /\ CallNames = <<"catalog">>
     /\ response =
          IF ~asfResponse.hasFeatures \/ asfResponse.features = <<>>
          THEN [status |-> 404, error |-> "No SAR data found for this location."]
          ELSE [status |-> 404,
                error |-> "SAR data found, but no preview images are available."]

C3_Witness ==
  /\ asfResponse = CatalogOk(<<fG, fE, fF>>)
  /\ response.status = 404 /\ pc = "done"

\* C4: the image is browse[0] of the eligible feature with the latest
\* startTime, the first such in catalog order on a tie, whatever the order of
\* the array and however new the features without a browse list are; the
\* colors and tags calls and the response carry that URL
Eligible(f) == f.hasProperties /\ f.hasBrowse /\ f.browse # <<>>

C4_LatestEligibleSelected ==
  Selected =>
    LET fs == asfResponse.features
    IN  /\ \E i \in 1..Len(fs) :
             /\ Eligible(fs[i])
             /\ \A j \in 1..Len(fs) :
                  Eligible(fs[j]) =>
                     /\ DateSeconds(fs[j].startTime) <= DateSeconds(fs[i].startTime)
                     /\ (j < i => DateSeconds(fs[j].startTime) < DateSeconds(fs[i].startTime))
             /\ properties = fs[i]
             /\ imageUrl = fs[i].browse[1]
        /\ \A k \in 1..Len(calls) :
             calls[k].to \in {"colors", "tags"} => calls[k].image_url = imageUrl
        /\ (pc = "done" /\ response.status = 200 => response.imageUrl = imageUrl)

C4_Witness ==
  /\ asfResponse = CatalogOk(<<fE, fC, fB>>)
  /\ pc = "done" /\ response.status = 200
  /\ response.imageUrl = "https://b/C.png"

\* C5: when the LLM call fails the response is 200, its explanation is the
\* literal 'AI interpretation unavailable due to service error.', and every
\* other field is what a successful LLM call would have left there
C5_LLMFailureOnlyChangesExplanation ==
  (pc = "done" /\ Failed(aiResponse)) =>
     /\ response.status = 200
     /\ response.explanation = "AI interpretation unavailable due to service error."
     /\ response.imageUrl = imageUrl
     /\ response.sceneName = properties.sceneName
     /\ response.imageTags = ImageTagsOf(imaggaResponse)
     /\ response.imageColors = ImageColorsOf(colorResponse)
     /\ response.metadata = prompt.metadata
     /\ response.metadata.captureDate = properties.startTime
     /\ response.metadata.coordinates = [latitude |-> latitude, longitude |-> longitude]
     /\ \A ok \in {r \in LLMResponses : r.kind = "ok"} :
          [response EXCEPT !.explanation = ExplanationOf(ok)]
            = ResultBody(imageUrl, ExplanationOf(ok), properties, imageTags,
                         imageColors, metadataForAI(properties, latitude, longitude))

C5_Witness ==
  /\ pc = "done" /\ aiResponse.kind = "timeout"
  /\ response.status = 200 /\ Len(response.imageTags) = 2
  /\ Len(response.imageColors.items) = 2

\* C6: a failed colors call leaves imageColors = [] in a 200 response, the
\* tags call is issued right after it and imageTags is what the tags call
\* yields; a failed tags call leaves imageTags = [] and imageColors what the
\* colors call yielded
C6_VisionCallsIndependent ==
  /\ Failed(colorResponse) =>
       /\ imageColors = EmptyArray
       /\ Len(calls) >= 3 /\ calls[2].to = "colors" /\ calls[3].to = "tags"
       /\ imaggaResponse.kind # "pending" => imageTags = ImageTagsOf(imaggaResponse)
       /\ pc = "done" =>
            /\ response.status = 200
            /\ response.imageColors = EmptyArray
            /\ response.imageTags = ImageTagsOf(imaggaResponse)
  /\ Failed(imaggaResponse) =>
       /\ imageTags = <<>>
       /\ imageColors = ImageColorsOf(colorResponse)
       /\ (pc = "done" /\ response.status = 200) =>
            /\ response.imageTags = <<>>
            /\ response.imageColors = ImageColorsOf(colorResponse)

C6_Witness ==
  /\ pc = "done" /\ colorResponse.kind = "timeout" /\ imaggaResponse.kind = "ok"
  /\ response.status = 200 /\ response.imageColors = EmptyArray
  /\ response.imageTags = <<"water", "ice">>

\* C7: after a successful tags call imageTags holds the English labels of
\* the tags with confidence strictly above 15, in upstream order, cut to the
\* first 5 of them
Survivors(items) == {i \in 1..Len(items) : items[i].confidence > 15}
NthSurvivor(items, n) ==
  CHOOSE i \in Survivors(items) : Cardinality({j \in Survivors(items) : j < i}) = n - 1

C7_TagsFilteredInOrderCappedAt5 ==
  (/\ imaggaResponse.kind = "ok" /\ imaggaResponse.tags.type = "array"
   /\ ~TagsChainThrows(imaggaResponse.tags)) =>
     LET items == imaggaResponse.tags.items
         n == Cardinality(Survivors(items))
     IN  /\ Len(imageTags) = (IF n > 5 THEN 5 ELSE n)
         /\ \A k \in 1..Len(imageTags) :
              imageTags[k] = items[NthSurvivor(items, k)].en
         /\ \A i \in 1..Len(items) :
              items[i].confidence <= 15 =>
                 \A k \in 1..Len(imageTags) : imageTags[k] # items[i].en

C7_Witness ==
  /\ imaggaResponse.kind = "ok" /\ pc = "done"
  /\ Len(imaggaResponse.tags.items) = 7
  /\ imaggaResponse.tags.items[1].confidence = 15
  /\ Cardinality(Survivors(imaggaResponse.tags.items)) = 6
  /\ response.imageTags = <<"urban", "forest", "field", "ship", "road">>

\* C8 as stated: of two successive /health responses the later timestamp is
\* strictly greater
C8_TimestampStrictlyIncreasing ==
  Len(healthLog) = 2 => healthLog[2].timestamp > healthLog[1].timestamp

\* C8 amended: every /health response is 200 {status: 'ok', timestamp}, and
\* of two successive responses the later timestamp is not smaller unless the
\* wall clock was set back between them
C8_TimestampNonDecreasing ==
  /\ \A i \in 1..Len(healthLog) :
       healthLog[i].code = 200 /\ healthLog[i].status = "ok"
  /\ (Len(healthLog) = 2 /\ ~healthLog[2].clockSetBack) =>
       healthLog[2].timestamp >= healthLog[1].timestamp

C8_Witness ==
  /\ Len(healthLog) = 2 /\ ~healthLog[2].clockSetBack
  /\ healthLog[2].timestamp = healthLog[1].timestamp
  /\ healthLog[2].timestamp > 0

\* C9: the calls of a request are issued in the order catalog, colors, tags,
\* LLM, each at most once, and a request that selected a feature issues
\* colors, tags and LLM exactly once each
C9_CallsInOrderExactlyOnce ==
  /\ Len(calls) <= 4
  /\ CallNames = SubSeq(<<"catalog", "colors", "tags", "llm">>, 1, Len(calls))
  /\ (pc = "done" /\ Selected) => Len(calls) = 4

\* C10: every request that was received is eventually answered, exactly once
C10_EveryRequestAnswered ==
  (pc # "idle") ~> (pc = "done" /\ responses = 1)

====
